---- MODULE Spec2Model ----
(***************************************************************************)
(* Mahjong tournament tracker: the scoring engine, the score ledger, the   *)
(* roster and the settings of the two snapshots of the application,        *)
(*   "App"  = src/src/App.jsx      (add/remove players, topK, sum rule)    *)
(*   "Part" = src/unnamed/part_000 (fixed roster of 8, optional grouping)  *)
(*                                                                         *)
(* Numbers.  base = (raw - 30000) / 1000 is a real-valued division.  The   *)
(* model keeps every score (base, bonus, delta, ledger total) as an exact  *)
(* integer count of thousandths of a point ("milli-points"), so 4.5 points *)
(* is 4500.  rankBonus itself is kept in points, as the program stores it. *)
(* Text fields are sequences of one-character strings.                     *)
(***************************************************************************)
EXTENDS Integers, Sequences, FiniteSets, TLC

VARIABLES
    variant,        \* which snapshot runs: "App" or "Part"
    players,        \* useState players: sequence of [id, name] in roster order
    playerScores,   \* useState playerScores: function id -> milli-points
    rounds,         \* useState rounds: sequence of Round records
    rankBonus,      \* useState rankBonus: sequence of numbers (points)
    topK,           \* useState topK (App only; Part draws the divider at 4)
    groupsEnabled,  \* useState groupsEnabled (Part only)
    groups,         \* useState groups (Part only): sequence of [id, members]
    error,          \* RoundDialog's error text ("" when none is shown)
    showSharkySelect, \* App only: the default-player picker is open
    showGroupSetup, \* Part only: the group dialog is open
    now,            \* the clock: what Date.now() returned when last read (0: never read)
    store,          \* localStorage: key -> what getItem gives for it
    constRefs,      \* the keys whose state is the module-level constant itself
    react,          \* round commit, step by step: where onSave stands, the state
                    \* updates it has queued, and what the last render read
    seatWithRaw,    \* scoring-engine check: the entries handed to the engine
    bonusIn,        \* scoring-engine check: the rank-bonus table handed to it
    out             \* scoring-engine check: what the engine returned

coreVars == <<players, playerScores, rounds, rankBonus, topK, groupsEnabled, groups>>
\* what no operation of the application writes when a handler and the render
\* that follows it are taken as one step
fixedVars == <<variant, react, seatWithRaw, bonusIn, out>>
\* the persisted store and what decides whether a persist effect runs
persistVars == <<store, constRefs>>
vars == <<variant, players, playerScores, rounds, rankBonus, topK, groupsEnabled,
          groups, error, showSharkySelect, showGroupSetup, now, store, constRefs,
          react, seatWithRaw, bonusIn, out>>

-----------------------------------------------------------------------------
(* Sequence helpers                                                        *)

RECURSIVE SumSeq(_)
SumSeq(s) == IF s = <<>> THEN 0 ELSE Head(s) + SumSeq(Tail(s))

Range(s) == {s[i] : i \in DOMAIN s}

\* The ids of a sequence of player records
Ids(ps) == {ps[i].id : i \in DOMAIN ps}

-----------------------------------------------------------------------------
(* Scoring engine: computeRoundDeltas                                      *)

\* A sort that is not stable: e goes in front of the entries with an equal raw.
InsertStayUnstable(sorted, e) ==
    LET notGreater == {j \in DOMAIN sorted : sorted[j].raw <= e.raw}
        pos == IF notGreater = {} THEN Len(sorted) + 1
               ELSE CHOOSE j \in notGreater : \A k \in notGreater : j <= k
    IN  SubSeq(sorted, 1, pos - 1) \o <<e>> \o SubSeq(sorted, pos, Len(sorted))

\* Where Array.prototype.sort((a, b) => b.raw - a.raw), a stable sort, puts e
\* when e is inserted after the entries that preceded it in the input: behind
\* every entry whose raw is greater or equal.
InsertStay(sorted, e) ==
    LET smaller == {j \in DOMAIN sorted : sorted[j].raw < e.raw}
        pos == IF smaller = {} THEN Len(sorted) + 1
               ELSE CHOOSE j \in smaller : \A k \in smaller : j <= k
    IN  SubSeq(sorted, 1, pos - 1) \o <<e>> \o SubSeq(sorted, pos, Len(sorted))

\* [...seatWithRaw].sort((a, b) => b.raw - a.raw)
RECURSIVE SortByRawDesc(_)
SortByRawDesc(s) ==
    IF s = <<>> THEN <<>>
    ELSE InsertStay(SortByRawDesc(SubSeq(s, 1, Len(s) - 1)), s[Len(s)])

\* Object.fromEntries(sorted.map((x, i) => [x.pid, i]))[pid]: the 0-based index
\* of the LAST entry of sorted carrying pid (a later pair overwrites an earlier).
RankIndexByPid(sorted, pid) ==
    LET at == {i \in DOMAIN sorted : sorted[i].pid = pid}
    IN  (CHOOSE i \in at : \A k \in at : k <= i) - 1

\* A table read one place off: rankBonus[i - 1] ?? 0
BonusAtOneOff(bonus, i) == IF i \in DOMAIN bonus THEN 1000 * bonus[i] ELSE 0

\* rankBonus[i] ?? 0, in milli-points
BonusAt(bonus, i) == IF i + 1 \in DOMAIN bonus THEN 1000 * bonus[i + 1] ELSE 0

\* An integer division: Math.floor((raw - 30000) / 1000)
BaseOfTruncated(raw) == 1000 * ((raw - 30000) \div 1000)

\* base = (raw - 30000) / 1000, in milli-points
BaseOf(raw) == raw - 30000

\* An engine that returns its records in rank order (sorted.map) instead of
\* seat order
computeRoundDeltasRanked(entries, bonus) ==
    LET sorted == SortByRawDesc(entries)
    IN  [i \in DOMAIN sorted |->
            [pid |-> sorted[i].pid,
             delta |-> (sorted[i].raw - 30000) + BonusAt(bonus, i - 1),
             base |-> sorted[i].raw - 30000, bonus |-> BonusAt(bonus, i - 1),
             raw |-> sorted[i].raw]]

\* seatWithRaw.map(({ pid, raw }) => ...): one record per entry, in input order
computeRoundDeltas(entries, bonus) ==
    LET sorted == SortByRawDesc(entries)
    IN  [i \in DOMAIN entries |->
            LET pid == entries[i].pid
                raw == entries[i].raw
                base == BaseOf(raw)
                bon == BonusAt(bonus, RankIndexByPid(sorted, pid))
            IN  [pid |-> pid, delta |-> base + bon, base |-> base,
                 bonus |-> bon, raw |-> raw]]

-----------------------------------------------------------------------------
(* Text fields and Number()                                                *)

DigitChars == <<"0", "1", "2", "3", "4", "5", "6", "7", "8", "9">>
Digits == Range(DigitChars)

DigitVal(c) == (CHOOSE i \in DOMAIN DigitChars : DigitChars[i] = c) - 1

AllDigits(s) == \A i \in DOMAIN s : s[i] \in Digits

RECURSIVE DigitsValue(_)
DigitsValue(s) ==
    IF s = <<>> THEN 0
    ELSE 10 * DigitsValue(SubSeq(s, 1, Len(s) - 1)) + DigitVal(s[Len(s)])

\* Number(v) on the text of an input field.  The empty text converts to 0, an
\* optional leading "-" followed by digits to that integer, anything else to
\* NaN (finite = FALSE).
Number(s) ==
    IF s = <<>> THEN [finite |-> TRUE, val |-> 0]
    ELSE IF AllDigits(s) THEN [finite |-> TRUE, val |-> DigitsValue(s)]
    ELSE IF s[1] = "-" /\ Len(s) > 1 /\ AllDigits(Tail(s))
         THEN [finite |-> TRUE, val |-> 0 - DigitsValue(Tail(s))]
    ELSE [finite |-> FALSE, val |-> 0]

\* e.target.value.replace(/[^\d-]/g, ""): what the raw and bonus fields keep
KeepDigitsMinus(typed) == SelectSeq(typed, LAMBDA c : c \in Digits \cup {"-"})

\* e.target.value.replace(/[^\d]/g, ""): what the topK field keeps
KeepDigits(typed) == SelectSeq(typed, LAMBDA c : c \in Digits)

\* String(n) / n.toString() of an integer
RECURSIVE NatToText(_)
NatToText(n) ==
    IF n < 10 THEN <<DigitChars[n + 1]>>
    ELSE NatToText(n \div 10) \o <<DigitChars[(n % 10) + 1]>>

ToText(n) == IF n < 0 THEN <<"-">> \o NatToText(0 - n) ELSE NatToText(n)

-----------------------------------------------------------------------------
(* Program constants                                                       *)

\* The ids and names of DEFAULT_PLAYERS (avatar and note are not modelled)
AllDefaultPlayers ==
    <<[id |-> "p1", name |-> <<"S", "i", "t", "a", "o", "w", "e", "x">>],
      [id |-> "p2", name |-> <<"L", "e", "n", " ", "O", "z", "o", "r", "a">>],
      [id |-> "p3", name |-> <<"T", "T">>],
      [id |-> "p4", name |-> <<"L", "a", "k", "t", "o">>],
      [id |-> "p5", name |-> <<"T", "i", "g", "r", "i", "s", " ", "S", "c", "i", "e", "n", "t", "i", "f", "i", "c", "u", "s">>],
      [id |-> "p6", name |-> <<"o", "k", "a", "m", "i", "p", "a", "n", "c", "a", "k", "e">>],
      [id |-> "p7", name |-> <<"S", "i", "l", "v", "e", "r", "y", "e", "n", "a">>],
      [id |-> "p8", name |-> <<"N", "e", "o", "n">>],
      [id |-> "p9", name |-> <<"A", "b", "g", "n", "e", "g", "p", "l", "t">>]>>

\* App.jsx lists nine default players, part_000 the first eight of them
DEFAULT_PLAYERS ==
    IF variant = "App" THEN AllDefaultPlayers ELSE SubSeq(AllDefaultPlayers, 1, 8)

EMPTY_BONUS ==
    IF variant = "App" THEN <<35, 10, -10, -20>> ELSE <<20, 10, -10, -20>>

DefaultGroups ==
    <<[id |-> "g1", members |-> <<>>], [id |-> "g2", members |-> <<>>],
      [id |-> "g3", members |-> <<>>], [id |-> "g4", members |-> <<>>]>>

\* validate's three messages
ErrSeats == "pick 4 different players"
ErrScores == "enter valid scores"
ErrSum == "scores must total 100000"

-----------------------------------------------------------------------------
(* Bounds and the inputs the operations are tried with                     *)

MaxRounds == 2      \* rounds committed before the model stops committing
MaxPlayers == 4     \* roster length at which the model stops adding players
MaxTicks == 1       \* clock readings after the first

StartTime == 1000   \* the first clock reading, above the digits of the default ids

\* What a user types into the four raw-score fields (before the field's filter).
RawTyped ==
    { <<ToText(45000), ToText(33000), ToText(25000), ToText(20000)>>,
      <<<<"5", "2", ",", "5", "0", "0">>, ToText(52500), ToText(-5000), <<>>>>,
      <<<<>>, <<>>, <<>>, <<>>>>,
      <<<<"-">>, ToText(30000), ToText(30000), ToText(40000)>>,
      <<ToText(30000), <<"1", "-", "2">>, ToText(30000), ToText(40000)>> }

\* The roster's ids, each once, in roster order
RECURSIVE Dedup(_)
Dedup(s) ==
    IF s = <<>> THEN <<>>
    ELSE LET front == Dedup(SubSeq(s, 1, Len(s) - 1))
         IN  IF s[Len(s)] \in Range(front) THEN front ELSE Append(front, s[Len(s)])

\* Seat selections tried: each seat holds a roster id or "" (nothing selected).
SeatInputs ==
    LET d == Dedup([i \in DOMAIN players |-> players[i].id])
    IN  {<<"", "", "", "">>}
        \cup (IF Len(d) >= 4
              THEN {<<d[1], d[2], d[3], d[4]>>, <<d[1], d[1], d[3], d[4]>>,
                    <<d[1], "", d[3], d[4]>>}
              ELSE {})

\* What a user leaves in the four bonus fields of the settings dialog
BonusTyped ==
    { <<<<>>, <<"1", ".", "5">>, ToText(0), ToText(-30)>>,
      <<ToText(20), <<"-">>, ToText(-10), ToText(-20)>> }

\* What a user leaves in the topK field (besides the value it opened with)
TopKTyped == {<<>>, ToText(2), ToText(9)}

\* Default-player selections confirmed in the picker
SharkySelections == {{"p1", "p2", "p3", "p4"}}

\* The text whose SHA-256 digest is SHARKY_HASH (the digest alone is in the
\* source; the model needs only that some text has it)
SharkyPassword == <<"*">>

\* Names typed into the add-player dialog
NameTyped == {<<>>, <<" ">>, <<" ", "N", "e", "o", " ">>, SharkyPassword}

-----------------------------------------------------------------------------
(* The persisted store: localStorage, loadPersisted, savePersisted          *)

\* The keys either snapshot reads and writes
Keys ==
    {"mt_players", "mt_playerScores", "mt_rounds", "mt_rankBonus", "mt_topK",
     "mt_groupsEnabled", "mt_groups"}

\* The keys with a useState initializer and a persist effect in snapshot v
KeysOf(v) ==
    IF v = "App"
    THEN {"mt_players", "mt_playerScores", "mt_rounds", "mt_rankBonus", "mt_topK"}
    ELSE {"mt_players", "mt_playerScores", "mt_rounds", "mt_rankBonus",
          "mt_groupsEnabled", "mt_groups"}

\* What localStorage.getItem can give for a key: null (absent), a JSON text
\* (kept as a document whose leaves are texts), the empty text, a text that is
\* not JSON, or an exception
Absent == [kind |-> "absent", doc |-> <<>>]
EmptyText == [kind |-> "empty", doc |-> <<>>]
NotJson == [kind |-> "notjson", doc |-> <<>>]
Throws == [kind |-> "throws", doc |-> <<>>]

\* JSON.stringify of a string: the characters between quotes
Quote(s) == <<"\"">> \o s \o <<"\"">>

\* JSON.parse of a quoted string
Unquote(t) == SubSeq(t, 2, Len(t) - 1)

\* JSON.parse of a number text: an optional "-", then digits
JsonNumber(t) ==
    IF t[1] = "-" THEN 0 - DigitsValue(Tail(t)) ELSE DigitsValue(t)

\* JSON.stringify / JSON.parse of a boolean
BoolText(b) == IF b THEN <<"t", "r", "u", "e">> ELSE <<"f", "a", "l", "s", "e">>
TextBool(t) == t = <<"t", "r", "u", "e">>

\* JSON.stringify(value) for the value kept under key: every number becomes
\* its decimal text, every name a quoted string, every boolean true / false
Stringify(key, v) ==
    CASE key = "mt_players" ->
             [k \in DOMAIN v |-> [id |-> v[k].id, name |-> Quote(v[k].name)]]
      [] key = "mt_playerScores" -> [p \in DOMAIN v |-> ToText(v[p])]
      [] key = "mt_rounds" ->
             [k \in DOMAIN v |->
                 [id |-> v[k].id, at |-> ToText(v[k].at), seat |-> v[k].seat,
                  raw |-> [i \in DOMAIN v[k].raw |-> ToText(v[k].raw[i])],
                  breakdown |->
                      [i \in DOMAIN v[k].breakdown |->
                          [pid |-> v[k].breakdown[i].pid,
                           delta |-> ToText(v[k].breakdown[i].delta),
                           base |-> ToText(v[k].breakdown[i].base),
                           bonus |-> ToText(v[k].breakdown[i].bonus),
                           raw |-> ToText(v[k].breakdown[i].raw)]]]]
      [] key = "mt_rankBonus" -> [i \in DOMAIN v |-> ToText(v[i])]
      [] key = "mt_topK" -> ToText(v)
      [] key = "mt_groupsEnabled" -> BoolText(v)
      [] key = "mt_groups" -> v

\* JSON.parse(raw) of a document written by Stringify
Parse(key, d) ==
    CASE key = "mt_players" ->
             [k \in DOMAIN d |-> [id |-> d[k].id, name |-> Unquote(d[k].name)]]
      [] key = "mt_playerScores" -> [p \in DOMAIN d |-> JsonNumber(d[p])]
      [] key = "mt_rounds" ->
             [k \in DOMAIN d |->
                 [id |-> d[k].id, at |-> JsonNumber(d[k].at), seat |-> d[k].seat,
                  raw |-> [i \in DOMAIN d[k].raw |-> JsonNumber(d[k].raw[i])],
                  breakdown |->
                      [i \in DOMAIN d[k].breakdown |->
                          [pid |-> d[k].breakdown[i].pid,
                           delta |-> JsonNumber(d[k].breakdown[i].delta),
                           base |-> JsonNumber(d[k].breakdown[i].base),
                           bonus |-> JsonNumber(d[k].breakdown[i].bonus),
                           raw |-> JsonNumber(d[k].breakdown[i].raw)]]]]
      [] key = "mt_rankBonus" -> [i \in DOMAIN d |-> JsonNumber(d[i])]
      [] key = "mt_topK" -> JsonNumber(d)
      [] key = "mt_groupsEnabled" -> TextBool(d)
      [] key = "mt_groups" -> d

\* What savePersisted(key, value) leaves under key
Saved(key, v) == [kind |-> "json", doc |-> Stringify(key, v)]

\* The fallback each useState initializer hands to loadPersisted
Fallback(key) ==
    CASE key = "mt_players" -> (IF variant = "App" THEN <<>> ELSE DEFAULT_PLAYERS)
      [] key = "mt_playerScores" -> [p \in Ids(DEFAULT_PLAYERS) |-> 0]
      [] key = "mt_rounds" -> <<>>
      [] key = "mt_rankBonus" -> EMPTY_BONUS
      [] key = "mt_topK" -> 4
      [] key = "mt_groupsEnabled" -> FALSE
      [] key = "mt_groups" -> DefaultGroups

\* A load that gives every key its fallback as soon as one key cannot be read
loadPersistedAllOrNothing(st, key) ==
    IF \A k \in KeysOf(variant) : st[k].kind = "json"
    THEN Parse(key, st[key].doc) ELSE Fallback(key)

\* loadPersisted(key, fallback) on the store st: raw ? JSON.parse(raw) :
\* fallback, and fallback when getItem or JSON.parse throws
loadPersisted(st, key) ==
    IF st[key].kind = "json" THEN Parse(key, st[key].doc) ELSE Fallback(key)

\* The useState value kept under key
StateOf(key) ==
    CASE key = "mt_players" -> players
      [] key = "mt_playerScores" -> playerScores
      [] key = "mt_rounds" -> rounds
      [] key = "mt_rankBonus" -> rankBonus
      [] key = "mt_topK" -> topK
      [] key = "mt_groupsEnabled" -> groupsEnabled
      [] key = "mt_groups" -> groups

\* The same value after the step
StateOfNext(key) ==
    CASE key = "mt_players" -> players'
      [] key = "mt_playerScores" -> playerScores'
      [] key = "mt_rounds" -> rounds'
      [] key = "mt_rankBonus" -> rankBonus'
      [] key = "mt_topK" -> topK'
      [] key = "mt_groupsEnabled" -> groupsEnabled'
      [] key = "mt_groups" -> groups'

\* Persist effects that run only for the keys whose state is another value,
\* not for those set to an equal new object
FlushChangedOnly(removed, rerun) ==
    store' = [k \in Keys |->
                 IF k \in KeysOf(variant) /\ StateOfNext(k) # StateOf(k)
                 THEN Saved(k, StateOfNext(k))
                 ELSE IF k \in removed THEN Absent
                 ELSE store[k]]

\* The store after a handler: the handler removed the keys in removed, and the
\* persist effects of the keys in rerun (those whose state is another value or
\* another object after the handler) ran after the render
Flush(removed, rerun) ==
    IF removed = {} /\ rerun = {}
    THEN UNCHANGED store
    ELSE store' = [k \in Keys |->
                      IF k \in rerun /\ k \in KeysOf(variant) THEN Saved(k, StateOfNext(k))
                      ELSE IF k \in removed THEN Absent
                      ELSE store[k]]

\* The keys whose state is another value after the step
Changed == {k \in KeysOf(variant) : StateOfNext(k) # StateOf(k)}

\* The keys whose state holds a module-level constant: EMPTY_BONUS, and in
\* part_000 DEFAULT_PLAYERS (setting such a state to the constant it already
\* holds is no state change, and no effect runs)
ConstantKeys == IF variant = "App" THEN {"mt_rankBonus"} ELSE {"mt_rankBonus", "mt_players"}

\* No handler is running, no state update is queued, and the last render read
\* the rounds and the ledger as they are
Rendered ==
    [pc |-> "idle", queue |-> <<>>, deltas |-> <<>>,
     rendered |-> [rounds |-> rounds, playerScores |-> playerScores]]

-----------------------------------------------------------------------------
(* State after construction, with an empty persisted store: every          *)
(* initializer got its fallback, and the persist effects ran after the     *)
(* first render                                                            *)

Init ==
    /\ variant \in {"App", "Part"}
    /\ players = IF variant = "App" THEN <<>> ELSE DEFAULT_PLAYERS
    /\ playerScores = [p \in Ids(DEFAULT_PLAYERS) |-> 0]
    /\ rounds = <<>>
    /\ rankBonus = EMPTY_BONUS
    /\ topK = 4
    /\ groupsEnabled = FALSE
    /\ groups = DefaultGroups
    /\ error = ""
    /\ showSharkySelect = FALSE
    /\ showGroupSetup = FALSE
    /\ now = 0
    /\ store = [k \in Keys |->
                   IF k \in KeysOf(variant) THEN Saved(k, Fallback(k)) ELSE Absent]
    /\ constRefs = ConstantKeys
    /\ react = Rendered
    /\ seatWithRaw = <<>>
    /\ bonusIn = <<>>
    /\ out = <<>>

-----------------------------------------------------------------------------
(* The clock                                                               *)

\* Date.now() returns t: the previous reading, or a later one when time has
\* passed since.  Readings are whole milliseconds; the first is StartTime.
DateNow(t) ==
    /\ IF now = 0 THEN t = StartTime ELSE t \in {now, now + 1}
    /\ t <= StartTime + MaxTicks

-----------------------------------------------------------------------------
(* Round dialog                                                            *)

\* A validate without the sum rule in App.jsx
validateNoSum(seat, raw) ==
    LET unique == Range(seat) \ {""}
        nums == [i \in DOMAIN raw |-> Number(raw[i])]
    IN  IF Cardinality(unique) # 4 THEN ErrSeats
        ELSE IF \E i \in DOMAIN nums : ~nums[i].finite THEN ErrScores
        ELSE ""

\* A validate that counts the seats filled, not the different players seated
validateSeatsFilled(seat, raw) ==
    LET nums == [i \in DOMAIN raw |-> Number(raw[i])]
        sum == SumSeq([i \in DOMAIN raw |-> nums[i].val])
    IN  IF Len(SelectSeq(seat, LAMBDA x : x # "")) # 4 THEN ErrSeats
        ELSE IF \E i \in DOMAIN nums : ~nums[i].finite THEN ErrScores
        ELSE IF variant = "App" /\ sum # 100000 THEN ErrSum
        ELSE ""

\* RoundDialog.validate: the message to show, "" when the submission passes
validate(seat, raw) ==
    LET unique == Range(seat) \ {""}
        nums == [i \in DOMAIN raw |-> Number(raw[i])]
        sum == SumSeq([i \in DOMAIN raw |-> nums[i].val])
    IN  IF Cardinality(unique) # 4 THEN ErrSeats
        ELSE IF \E i \in DOMAIN nums : ~nums[i].finite THEN ErrScores
        ELSE IF variant = "App" /\ sum # 100000 THEN ErrSum
        ELSE ""

\* playerScores[pid] || 0
ScoreOr0(scores, pid) == IF pid \in DOMAIN scores THEN scores[pid] ELSE 0

\* A ledger update that stores the delta instead of adding it
RECURSIVE AddDeltasOverwrite(_, _)
AddDeltasOverwrite(scores, deltas) ==
    IF deltas = <<>> THEN scores
    ELSE AddDeltasOverwrite((Head(deltas).pid :> Head(deltas).delta) @@ scores,
                            Tail(deltas))

\* for (const d of deltas) next[d.pid] = (next[d.pid] || 0) + d.delta
RECURSIVE AddDeltas(_, _)
AddDeltas(scores, deltas) ==
    IF deltas = <<>> THEN scores
    ELSE LET d == Head(deltas)
             next == (d.pid :> (ScoreOr0(scores, d.pid) + d.delta)) @@ scores
         IN  AddDeltas(next, Tail(deltas))

\* The Round record setRounds appends
NewRound(t, seat, raw, deltas) ==
    [id |-> "r" \o ToString(t), at |-> t, seat |-> seat,
     raw |-> [i \in DOMAIN raw |-> Number(raw[i]).val], breakdown |-> deltas]

\* RoundDialog.onSave with the seats selected and the scores typed; t is what
\* Date.now() returns if the round is committed
RoundDialogOnSave(seat, typed, t) ==
    LET raw == [i \in DOMAIN typed |-> KeepDigitsMinus(typed[i])]
        msg == validate(seat, raw)
        entries == [i \in DOMAIN seat |->
                       [pid |-> seat[i], raw |-> Number(raw[i]).val, idx |-> i - 1]]
        deltas == computeRoundDeltas(entries, rankBonus)
    IN  /\ ~showSharkySelect
        /\ IF msg # ""
           THEN /\ error' = msg
                /\ UNCHANGED <<coreVars, showSharkySelect, now, showGroupSetup, fixedVars>>
           ELSE /\ Len(rounds) < MaxRounds
                /\ DateNow(t)
                /\ now' = t
                /\ rounds' = Append(rounds, NewRound(t, seat, raw, deltas))
                /\ playerScores' = AddDeltas(playerScores, deltas)
                /\ error' = ""
                /\ UNCHANGED <<players, rankBonus, topK, groupsEnabled, groups,
                               showSharkySelect, showGroupSetup, fixedVars>>

\* Closing the round dialog (cancel, the close button or a click outside it)
\* unmounts it, and with it the error it showed.
RoundDialogClose ==
    /\ error # ""
    /\ error' = ""
    /\ UNCHANGED <<coreVars, showSharkySelect, now, showGroupSetup, persistVars, fixedVars>>

-----------------------------------------------------------------------------
(* Settings dialog                                                         *)

\* Neither the round dialog (showing an error) nor the picker is open.  The
\* page's handlers are run in such states only: run behind one of these two
\* dialogs they lead to the states that closing it first leads to, because the
\* dialog components are created anew, without their local state, whenever
\* the page's state changes.  The group dialog is not part of this: what its
\* save button does depends on what was done while it was open.
PageIdle == error = "" /\ ~showSharkySelect

\* A settings save that scores the committed rounds again with the new table
SettingsOnSaveRescoring(tempBonus, tempTopK) ==
    LET vals == [i \in DOMAIN tempBonus |-> Number(tempBonus[i])]
        table == [i \in DOMAIN vals |-> vals[i].val]
        rescored(r) ==
            [r EXCEPT !.breakdown =
                computeRoundDeltas([i \in DOMAIN r.seat |->
                                       [pid |-> r.seat[i], raw |-> r.raw[i]]], table)]
    IN  /\ PageIdle
        /\ \A i \in DOMAIN vals : vals[i].finite
        /\ rankBonus' = table
        /\ rounds' = [k \in DOMAIN rounds |-> rescored(rounds[k])]
        /\ UNCHANGED <<players, playerScores, topK, groupsEnabled, groups,
                       error, showSharkySelect, now, showGroupSetup, fixedVars>>

\* A save that stores the fields that are not blank only
SettingsOnSaveDroppingBlank(tempBonus, tempTopK) ==
    LET kept == SelectSeq(tempBonus, LAMBDA f : f # <<>>)
        vals == [i \in DOMAIN kept |-> Number(kept[i])]
        k == Number(tempTopK)
    IN  /\ PageIdle
        /\ IF \E i \in DOMAIN vals : ~vals[i].finite
           THEN UNCHANGED <<rankBonus, topK>>
           ELSE IF variant = "App"
                   /\ (~k.finite \/ k.val < 1 \/ k.val > Len(players))
           THEN UNCHANGED <<rankBonus, topK>>
           ELSE /\ rankBonus' = [i \in DOMAIN vals |-> vals[i].val]
                /\ topK' = IF variant = "App" THEN k.val ELSE topK
        /\ UNCHANGED <<players, playerScores, rounds, groupsEnabled, groups,
                       error, showSharkySelect, now, showGroupSetup, fixedVars>>

\* SettingsDialog.onSave with the texts left in the bonus fields and, in
\* App.jsx, in the topK field (part_000 has no such field).
SettingsOnSave(tempBonus, tempTopK) ==
    LET vals == [i \in DOMAIN tempBonus |-> Number(tempBonus[i])]
        k == Number(tempTopK)
    IN  /\ PageIdle
        /\ IF \E i \in DOMAIN vals : ~vals[i].finite
           THEN UNCHANGED <<rankBonus, topK>>
           ELSE IF variant = "App"
                   /\ (~k.finite \/ k.val < 1 \/ k.val > Len(players))
           THEN UNCHANGED <<rankBonus, topK>>
           ELSE /\ rankBonus' = [i \in DOMAIN vals |-> vals[i].val]
                /\ topK' = IF variant = "App" THEN k.val ELSE topK
        /\ UNCHANGED <<players, playerScores, rounds, groupsEnabled, groups,
                       error, showSharkySelect, now, showGroupSetup, fixedVars>>

\* A reset that zeroes the ledger's existing keys instead of rebuilding the
\* ledger from the roster
resetAllKeepingKeys(confirmed) ==
    /\ PageIdle
    /\ IF ~confirmed
       THEN UNCHANGED <<playerScores, rounds, groupsEnabled, groups>>
       ELSE /\ playerScores' = [p \in DOMAIN playerScores |-> 0]
            /\ rounds' = <<>>
            /\ IF variant = "Part"
               THEN groupsEnabled' = FALSE /\ groups' = DefaultGroups
               ELSE UNCHANGED <<groupsEnabled, groups>>
    /\ UNCHANGED <<players, rankBonus, topK, error, showSharkySelect, now, showGroupSetup, fixedVars>>

\* resetAll; confirmed is window.confirm's answer
resetAll(confirmed) ==
    /\ PageIdle
    /\ IF ~confirmed
       THEN UNCHANGED <<playerScores, rounds, groupsEnabled, groups>>
       ELSE /\ playerScores' = [p \in Ids(players) |-> 0]
            /\ rounds' = <<>>
            /\ IF variant = "Part"
               THEN groupsEnabled' = FALSE /\ groups' = DefaultGroups
               ELSE UNCHANGED <<groupsEnabled, groups>>
    /\ UNCHANGED <<players, rankBonus, topK, error, showSharkySelect, now, showGroupSetup, fixedVars>>

\* SettingsDialog.revertToDefault; confirmed is window.confirm's answer
revertToDefault(confirmed) ==
    /\ PageIdle
    /\ IF ~confirmed
       THEN UNCHANGED coreVars
       ELSE /\ players' = IF variant = "App" THEN <<>> ELSE DEFAULT_PLAYERS
            /\ playerScores' = IF variant = "App" THEN [p \in {} |-> 0]
                               ELSE [p \in Ids(DEFAULT_PLAYERS) |-> 0]
            /\ rounds' = <<>>
            /\ rankBonus' = EMPTY_BONUS
            /\ topK' = 4
            /\ groupsEnabled' = FALSE
            /\ groups' = DefaultGroups
    /\ UNCHANGED <<error, showSharkySelect, now, showGroupSetup, fixedVars>>

-----------------------------------------------------------------------------
(* Roster                                                                  *)

IsSpace(c) == c = " "

\* A trim of the leading whitespace only (trimStart)
RECURSIVE TrimStart(_)
TrimStart(s) ==
    IF s = <<>> THEN s
    ELSE IF IsSpace(s[1]) THEN TrimStart(Tail(s))
    ELSE s

\* name.trim()
RECURSIVE Trim(_)
Trim(s) ==
    IF s = <<>> THEN s
    ELSE IF IsSpace(s[1]) THEN Trim(Tail(s))
    ELSE IF IsSpace(s[Len(s)]) THEN Trim(SubSeq(s, 1, Len(s) - 1))
    ELSE s

\* checkPassword(input): the SHA-256 digest of the trimmed input is SHARKY_HASH
checkPassword(input) == Trim(input) = SharkyPassword

\* Math.ceil(n / 2)
CeilHalf(n) == (n + 1) \div 2

\* handleConfirmAddPlayer with newPlayerName = typed (App.jsx); t is what
\* Date.now() returns if a player is added
handleConfirmAddPlayer(typed, t) ==
    LET id == "p" \o ToString(t)
        next == Append(players, [id |-> id, name |-> Trim(typed)])
    IN  /\ variant = "App"
        /\ PageIdle
        /\ IF Trim(typed) = <<>>
           THEN UNCHANGED <<players, topK, playerScores, showSharkySelect, now>>
           ELSE IF checkPassword(Trim(typed))
           THEN /\ showSharkySelect' = TRUE
                /\ UNCHANGED <<players, topK, playerScores, now>>
           ELSE /\ Len(players) < MaxPlayers
                /\ DateNow(t)
                /\ now' = t
                /\ players' = next
                /\ topK' = CeilHalf(Len(next))
                /\ playerScores' = (id :> 0) @@ playerScores
                /\ UNCHANGED showSharkySelect
        /\ UNCHANGED <<rounds, rankBonus, groupsEnabled, groups, error, showGroupSetup, fixedVars>>

\* for (const p of selectedPlayers) next[p.id] = 0
ZeroScores(scores, ids) == [p \in ids |-> 0] @@ scores

\* The picker's confirm button with sharkySelected = sel (App.jsx)
SharkyConfirm(sel) ==
    LET selectedPlayers == SelectSeq(DEFAULT_PLAYERS, LAMBDA p : p.id \in sel)
        next == players \o selectedPlayers
    IN  /\ showSharkySelect
        /\ sel # {}
        /\ Len(next) <= MaxPlayers
        /\ players' = next
        /\ topK' = CeilHalf(Len(next))
        /\ playerScores' = ZeroScores(playerScores, Ids(selectedPlayers))
        /\ showSharkySelect' = FALSE
        /\ UNCHANGED <<rounds, rankBonus, groupsEnabled, groups, error, now, showGroupSetup, fixedVars>>

\* Closing the picker without confirming
SharkyClose ==
    /\ showSharkySelect
    /\ showSharkySelect' = FALSE
    /\ UNCHANGED <<coreVars, error, now, showGroupSetup, persistVars, fixedVars>>

\* A removal that also drops the rounds the removed player sat in
RemovePlayerPurging(id, confirmed) ==
    /\ variant = "App"
    /\ PageIdle
    /\ players # <<>>
    /\ id = players[Len(players)].id
    /\ IF ~confirmed
       THEN UNCHANGED <<players, playerScores, rounds>>
       ELSE /\ players' = SelectSeq(players, LAMBDA pl : pl.id # id)
            /\ playerScores' = [p \in DOMAIN playerScores \ {id} |-> playerScores[p]]
            /\ rounds' = SelectSeq(rounds, LAMBDA r : id \notin Range(r.seat))
    /\ UNCHANGED <<rankBonus, topK, groupsEnabled, groups, error,
                   showSharkySelect, now, showGroupSetup, fixedVars>>

\* The remove button of the roster card of player id (App.jsx); the model
\* presses the last card's button only
RemovePlayer(id, confirmed) ==
    /\ variant = "App"
    /\ PageIdle
    /\ players # <<>>
    /\ id = players[Len(players)].id
    /\ IF ~confirmed
       THEN UNCHANGED <<players, playerScores>>
       ELSE /\ players' = SelectSeq(players, LAMBDA pl : pl.id # id)
            /\ playerScores' = [p \in DOMAIN playerScores \ {id} |-> playerScores[p]]
    /\ UNCHANGED <<rounds, rankBonus, topK, groupsEnabled, groups, error,
                   showSharkySelect, now, showGroupSetup, fixedVars>>

-----------------------------------------------------------------------------
(* Grouping (part_000)                                                     *)

anyRounds == Len(rounds) > 0

\* GroupSetupDialog.toggleMember(gid, pid) on draftGroups = draft
toggleMember(draft, gid, pid) ==
    [k \in DOMAIN draft |->
        LET g == draft[k]
        IN  IF g.id # gid THEN g
            ELSE IF pid \in Range(g.members)
                 THEN [g EXCEPT !.members = SelectSeq(g.members, LAMBDA x : x # pid)]
            ELSE IF Len(g.members) < 2
                 THEN [g EXCEPT !.members = Append(g.members, pid)]
            ELSE g]

\* An isPicked that looks at the target group instead of the other groups
isPickedInTarget(draft, pid, targetGid) ==
    \E k \in DOMAIN draft :
        draft[k].id = targetGid /\ pid \in Range(draft[k].members)

\* GroupSetupDialog.isPicked(pid, targetGid)
isPicked(draft, pid, targetGid) ==
    \E k \in DOMAIN draft :
        draft[k].id # targetGid /\ pid \in Range(draft[k].members)

\* A click on the checkbox of player click[2] in the card of group click[1]:
\* the checkbox is disabled while the player is picked in another group
ClickMember(draft, click) ==
    IF isPicked(draft, click[2], click[1]) THEN draft
    ELSE toggleMember(draft, click[1], click[2])

RECURSIVE ApplyClicks(_, _)
ApplyClicks(draft, clicks) ==
    IF clicks = <<>> THEN draft
    ELSE ApplyClicks(ClickMember(draft, Head(clicks)), Tail(clicks))

\* The clicks that uncheck every checked box of the draft
RECURSIVE CheckedBoxes(_)
CheckedBoxes(draft) ==
    IF draft = <<>> THEN <<>>
    ELSE [i \in DOMAIN Head(draft).members |->
             <<Head(draft).id, Head(draft).members[i]>>]
         \o CheckedBoxes(Tail(draft))

\* The click sequences tried on a draft with no box checked: none; one pair;
\* the eight players paired off, with a third player tried on a full group
\* and a player tried in a second group on the way; the same, then two
\* players taken out and put back the other way round.
ClickScripts ==
    LET pairing ==
            << <<"g1", "p1">>, <<"g1", "p2">>, <<"g1", "p3">>, <<"g2", "p1">>,
               <<"g2", "p3">>, <<"g2", "p4">>, <<"g3", "p5">>, <<"g3", "p6">>,
               <<"g4", "p7">>, <<"g4", "p8">> >>
    IN  { <<>>,
          << <<"g1", "p1">>, <<"g1", "p2">> >>,
          pairing,
          pairing \o << <<"g1", "p1">>, <<"g2", "p3">>, <<"g1", "p3">>,
                        <<"g2", "p1">> >> }

\* The drafts tried: the draft the dialog opens with (the current groups), and
\* what unchecking every box and then one of the click sequences makes of it
GroupDrafts ==
    {groups} \cup
    {ApplyClicks(groups, CheckedBoxes(groups) \o clicks) : clicks \in ClickScripts}

\* GroupSetupButton: disabled once a round exists
GroupSetupOpen ==
    /\ variant = "Part"
    /\ PageIdle
    /\ ~anyRounds
    /\ showGroupSetup' = TRUE
    /\ UNCHANGED <<coreVars, error, showSharkySelect, now, persistVars, fixedVars>>

\* Closing the group dialog without saving
GroupSetupClose ==
    /\ showGroupSetup
    /\ showGroupSetup' = FALSE
    /\ UNCHANGED <<coreVars, error, showSharkySelect, now, persistVars, fixedVars>>

\* GroupSetupDialog.onSave with the checkbox at enabled and draftGroups = draft
GroupSetupOnSave(enabled, draft) ==
    LET total == SumSeq([i \in DOMAIN draft |-> Len(draft[i].members)])
    IN  /\ variant = "Part"
        /\ showGroupSetup
        /\ error = ""
        /\ IF enabled /\ total # 8
           THEN UNCHANGED <<groupsEnabled, groups, showGroupSetup>>
           ELSE /\ groupsEnabled' = enabled
                /\ groups' = draft
                /\ showGroupSetup' = FALSE
        /\ UNCHANGED <<players, playerScores, rounds, rankBonus, topK, error,
                       showSharkySelect, now, fixedVars>>

-----------------------------------------------------------------------------
(* The application                                                         *)

ClockReadings == StartTime .. StartTime + MaxTicks

\* A round is committed with setRounds and setPlayerScores, each given a new
\* object; a rejected save sets the error text only
SubmitRound ==
    \E seat \in SeatInputs, typed \in RawTyped, t \in ClockReadings :
        /\ RoundDialogOnSave(seat, typed, t)
        /\ Flush({}, IF rounds' # rounds THEN {"mt_rounds", "mt_playerScores"} ELSE {})
        /\ UNCHANGED constRefs

\* SettingsDialog.onSave gets past its two returns
SettingsAccepted(tempBonus, tempTopK) ==
    /\ \A i \in DOMAIN tempBonus : Number(tempBonus[i]).finite
    /\ variant = "App" =>
           /\ Number(tempTopK).finite
           /\ Number(tempTopK).val >= 1
           /\ Number(tempTopK).val <= Len(players)

\* The settings dialog opens with the current table and topK as text; each
\* field's change handler filters what is typed into it.  An accepted save
\* hands setRankBonus a new array.
SaveSettings ==
    \E typedBonus \in BonusTyped \cup {[i \in DOMAIN rankBonus |-> ToText(rankBonus[i])]},
       typedK \in TopKTyped \cup {ToText(topK)} :
        LET tempBonus == [i \in DOMAIN typedBonus |-> KeepDigitsMinus(typedBonus[i])]
            tempTopK == KeepDigits(typedK)
            accepted == SettingsAccepted(tempBonus, tempTopK)
        IN  /\ SettingsOnSave(tempBonus, tempTopK)
            /\ Flush({}, (IF accepted THEN {"mt_rankBonus"} ELSE {}) \cup Changed)
            /\ constRefs' = IF accepted THEN constRefs \ {"mt_rankBonus"} ELSE constRefs

\* A confirmed resetAll removes its keys first, then sets the ledger, the
\* rounds and (part_000) the groups to new objects and groupsEnabled to false
ResetWith(confirmed) ==
    /\ resetAll(confirmed)
    /\ IF confirmed
       THEN Flush(IF variant = "App" THEN {"mt_playerScores", "mt_rounds"}
                  ELSE {"mt_playerScores", "mt_rounds", "mt_groupsEnabled", "mt_groups"},
                  {"mt_playerScores", "mt_rounds", "mt_groups"} \cup Changed)
       ELSE UNCHANGED store
    /\ UNCHANGED constRefs

\* The reset button: window.confirm answers either way
Reset == \E confirmed \in BOOLEAN : ResetWith(confirmed)

\* A confirmed revertToDefault removes its keys first, then sets every state:
\* the ledger, the rounds, the roster of App.jsx and the groups to new
\* objects, the rank-bonus table to EMPTY_BONUS and the roster of part_000 to
\* DEFAULT_PLAYERS
Revert ==
    \E confirmed \in BOOLEAN :
        /\ revertToDefault(confirmed)
        /\ IF confirmed
           THEN /\ Flush({"mt_players", "mt_playerScores", "mt_rounds", "mt_rankBonus",
                          "mt_groupsEnabled", "mt_groups"},
                         {"mt_playerScores", "mt_rounds", "mt_groups"}
                             \cup (IF variant = "App" THEN {"mt_players"} ELSE {})
                             \cup (ConstantKeys \ constRefs)
                             \cup Changed)
                /\ constRefs' = ConstantKeys
           ELSE UNCHANGED persistVars

\* An add hands setPlayers and setPlayerScores new objects
AddPlayer ==
    \E typed \in NameTyped, t \in ClockReadings :
        /\ handleConfirmAddPlayer(typed, t)
        /\ Flush({}, IF players' # players
                     THEN {"mt_players", "mt_playerScores"} \cup Changed ELSE {})
        /\ UNCHANGED constRefs

PickDefaults ==
    \E sel \in SharkySelections :
        /\ SharkyConfirm(sel)
        /\ Flush({}, {"mt_players", "mt_playerScores"} \cup Changed)
        /\ UNCHANGED constRefs

\* A confirmed removal hands setPlayers and setPlayerScores new objects
Remove ==
    \E id \in Ids(players), confirmed \in BOOLEAN :
        /\ RemovePlayer(id, confirmed)
        /\ Flush({}, IF confirmed THEN {"mt_players", "mt_playerScores"} ELSE {})
        /\ UNCHANGED constRefs

\* An accepted group save (it closes the dialog) hands setGroups a new array
SetupGroups ==
    \E enabled \in BOOLEAN, draft \in GroupDrafts :
        /\ GroupSetupOnSave(enabled, draft)
        /\ Flush({}, IF ~showGroupSetup' THEN {"mt_groups"} \cup Changed ELSE {})
        /\ UNCHANGED constRefs

\* The page is loaded again: every initializer reads its key, the dialogs are
\* closed, and the persist effects run after the first render
Reload ==
    /\ players' = loadPersisted(store, "mt_players")
    /\ playerScores' = loadPersisted(store, "mt_playerScores")
    /\ rounds' = loadPersisted(store, "mt_rounds")
    /\ rankBonus' = loadPersisted(store, "mt_rankBonus")
    /\ IF variant = "App"
       THEN /\ topK' = loadPersisted(store, "mt_topK")
            /\ UNCHANGED <<groupsEnabled, groups>>
       ELSE /\ groupsEnabled' = loadPersisted(store, "mt_groupsEnabled")
            /\ groups' = loadPersisted(store, "mt_groups")
            /\ UNCHANGED topK
    /\ error' = ""
    /\ showSharkySelect' = FALSE
    /\ showGroupSetup' = FALSE
    /\ constRefs' = {k \in ConstantKeys : store[k].kind # "json"}
    /\ Flush({}, KeysOf(variant))
    /\ UNCHANGED <<now, variant, seatWithRaw, bonusIn, out>>
    /\ react' = [pc |-> "idle", queue |-> <<>>, deltas |-> <<>>,
                 rendered |-> [rounds |-> rounds', playerScores |-> playerScores']]

Next ==
    \/ SubmitRound
    \/ RoundDialogClose
    \/ SaveSettings
    \/ Reset
    \/ Revert
    \/ AddPlayer
    \/ PickDefaults
    \/ SharkyClose
    \/ Remove
    \/ GroupSetupOpen
    \/ SetupGroups
    \/ GroupSetupClose

Spec == Init /\ [][Next]_vars

-----------------------------------------------------------------------------
(* Loading from a store that another session, or anything else, has left   *)

\* A value another session can have saved under key
StoredSample(key) ==
    CASE key = "mt_players" -> SubSeq(AllDefaultPlayers, 1, 2)
      [] key = "mt_playerScores" -> [p \in {"p1", "p2"} |-> IF p = "p1" THEN 22500 ELSE -22500]
      [] key = "mt_rounds" ->
             <<NewRound(StartTime, <<"p1", "p2", "p3", "p4">>,
                        <<ToText(45000), ToText(33000), ToText(25000), ToText(-3000)>>,
                        computeRoundDeltas(
                            [i \in 1..4 |->
                                [pid |-> <<"p1", "p2", "p3", "p4">>[i],
                                 raw |-> <<45000, 33000, 25000, -3000>>[i]]],
                            <<0, 15, 0, -30>>))>>
      [] key = "mt_rankBonus" -> <<0, 15, 0, -30>>
      [] key = "mt_topK" -> 2
      [] key = "mt_groupsEnabled" -> TRUE
      [] key = "mt_groups" ->
             <<[id |-> "g1", members |-> <<"p1", "p2">>],
               [id |-> "g2", members |-> <<"p3", "p4">>],
               [id |-> "g3", members |-> <<"p5", "p6">>],
               [id |-> "g4", members |-> <<"p7", "p8">>]>>

\* What getItem can give for a key when the page is loaded
ItemKinds == {"absent", "empty", "notjson", "throws", "json"}

StoredItem(key, kind) ==
    IF kind = "json" THEN Saved(key, StoredSample(key)) ELSE [kind |-> kind, doc |-> <<>>]

\* A page of a first launch, over a store in which every key of the snapshot
\* is missing, unreadable or holds what another session saved
InitLoad ==
    /\ variant \in {"App", "Part"}
    /\ players = Fallback("mt_players")
    /\ playerScores = Fallback("mt_playerScores")
    /\ rounds = <<>>
    /\ rankBonus = EMPTY_BONUS
    /\ topK = 4
    /\ groupsEnabled = FALSE
    /\ groups = DefaultGroups
    /\ error = ""
    /\ showSharkySelect = FALSE
    /\ showGroupSetup = FALSE
    /\ now = 0
    /\ \E kinds \in [KeysOf(variant) -> ItemKinds] :
           store = [k \in Keys |->
                       IF k \in KeysOf(variant) THEN StoredItem(k, kinds[k]) ELSE Absent]
    /\ constRefs = ConstantKeys
    /\ react = Rendered
    /\ seatWithRaw = <<>>
    /\ bonusIn = <<>>
    /\ out = <<>>

NextLoad == Reload

SpecLoad == InitLoad /\ [][NextLoad]_vars

-----------------------------------------------------------------------------
(* Round commit, one setState call at a time                               *)

\* A page on which a round can be committed: part_000 after its first launch,
\* App.jsx after the default players p1..p4 were picked on a first launch
InitCommit ==
    /\ variant \in {"App", "Part"}
    /\ players = IF variant = "App" THEN SubSeq(AllDefaultPlayers, 1, 4) ELSE DEFAULT_PLAYERS
    /\ playerScores = [p \in Ids(DEFAULT_PLAYERS) |-> 0]
    /\ rounds = <<>>
    /\ rankBonus = EMPTY_BONUS
    /\ topK = IF variant = "App" THEN 2 ELSE 4
    /\ groupsEnabled = FALSE
    /\ groups = DefaultGroups
    /\ error = ""
    /\ showSharkySelect = FALSE
    /\ showGroupSetup = FALSE
    /\ now = 0
    /\ store = [k \in Keys |->
                   IF k \in KeysOf(variant) THEN Saved(k, StateOf(k)) ELSE Absent]
    /\ constRefs = {"mt_rankBonus"}
    /\ react = Rendered
    /\ seatWithRaw = <<>>
    /\ bonusIn = <<>>
    /\ out = <<>>

\* what a step of onSave leaves alone besides the state it queues updates for
commitFixed ==
    <<players, rankBonus, topK, groupsEnabled, groups, showSharkySelect,
      showGroupSetup, constRefs, variant, seatWithRaw, bonusIn, out>>

\* onSave up to and including its call of setRounds: validate, the engine,
\* and setRounds(prev => [...prev, round]), which queues the update.  A
\* message of validate goes to setError and onSave returns.
OnSaveSetRounds(seat, typed, t) ==
    LET raw == [i \in DOMAIN typed |-> KeepDigitsMinus(typed[i])]
        msg == validate(seat, raw)
        entries == [i \in DOMAIN seat |->
                       [pid |-> seat[i], raw |-> Number(raw[i]).val, idx |-> i - 1]]
        deltas == computeRoundDeltas(entries, rankBonus)
    IN  /\ react.pc = "idle"
        /\ IF msg # ""
           THEN /\ error' = msg
                /\ UNCHANGED <<now, react>>
           ELSE /\ Len(rounds) < MaxRounds
                /\ DateNow(t)
                /\ now' = t
                /\ error' = ""
                /\ react' = [react EXCEPT
                                 !.pc = "setRounds",
                                 !.deltas = deltas,
                                 !.queue = Append(@, [set |-> "rounds",
                                                      arg |-> NewRound(t, seat, raw, deltas)])]
        /\ UNCHANGED <<rounds, playerScores, store, commitFixed>>

\* onSave's call of setPlayerScores(prev => ...), which queues the update
OnSaveSetPlayerScores ==
    /\ react.pc = "setRounds"
    /\ react' = [react EXCEPT
                     !.pc = "setPlayerScores",
                     !.queue = Append(@, [set |-> "playerScores", arg |-> react.deltas])]
    /\ UNCHANGED <<rounds, playerScores, error, now, store, commitFixed>>

\* onSave's setShowRoundDialog(false) and its return to React
OnSaveReturn ==
    /\ react.pc = "setPlayerScores"
    /\ react' = [react EXCEPT !.pc = "returned"]
    /\ UNCHANGED <<rounds, playerScores, error, now, store, commitFixed>>

\* A renderer that renders inside every setState call
RenderDueUnbatched == react.queue # <<>>

\* React renders when the event handler that queued updates has returned:
\* the updates of one handler are applied in one render
RenderDue == react.pc = "returned"

\* The queued updaters applied in the order they were queued
RECURSIVE ApplyRounds(_, _)
ApplyRounds(rs, queue) ==
    IF queue = <<>> THEN rs
    ELSE ApplyRounds(IF Head(queue).set = "rounds" THEN Append(rs, Head(queue).arg) ELSE rs,
                     Tail(queue))

RECURSIVE ApplyScores(_, _)
ApplyScores(scores, queue) ==
    IF queue = <<>> THEN scores
    ELSE ApplyScores(IF Head(queue).set = "playerScores"
                     THEN AddDeltas(scores, Head(queue).arg) ELSE scores,
                     Tail(queue))

\* A render: the queued updates become the state, playerBoard and the round
\* history are built from it, and the persist effects run
Render ==
    /\ RenderDue
    /\ rounds' = ApplyRounds(rounds, react.queue)
    /\ playerScores' = ApplyScores(playerScores, react.queue)
    /\ react' = [pc |-> IF react.pc = "returned" THEN "idle" ELSE react.pc,
                 queue |-> <<>>,
                 deltas |-> react.deltas,
                 rendered |-> [rounds |-> rounds', playerScores |-> playerScores']]
    /\ Flush({}, {k \in {"mt_rounds", "mt_playerScores"} :
                     \E i \in DOMAIN react.queue : "mt_" \o react.queue[i].set = k})
    /\ UNCHANGED <<error, now, commitFixed>>

\* The round dialog is opened again after an error was shown
DialogReopened ==
    /\ react.pc = "idle"
    /\ error # ""
    /\ error' = ""
    /\ UNCHANGED <<rounds, playerScores, now, store, react, commitFixed>>

NextCommit ==
    \/ \E seat \in SeatInputs, typed \in RawTyped, t \in ClockReadings :
           OnSaveSetRounds(seat, typed, t)
    \/ OnSaveSetPlayerScores
    \/ OnSaveReturn
    \/ Render
    \/ DialogReopened

SpecCommit == InitCommit /\ [][NextCommit]_vars

-----------------------------------------------------------------------------
(* The scoring engine on its own                                           *)

\* Raw scores handed to the engine: the two documented examples' scores, a
\* score with a fractional base (34500) and a negative one.
PureRaws == {45000, 33000, 25000, 20000, 30000, 28000, 12000, 34500, -5000}

\* Seat assignments handed to the engine: ids in seat order, ids against seat
\* order, and one player seated twice (which validate keeps from the engine).
PurePids ==
    { <<"p1", "p2", "p3", "p4">>, <<"p4", "p3", "p2", "p1">>,
      <<"p1", "p2", "p1", "p4">> }

\* Rank-bonus tables handed to the engine; the last lacks the fourth entry
PureBonus == { <<20, 10, -10, -20>>, <<0, 15, 0, -30>>, <<20, 10, -10>> }

InitPure ==
    /\ variant = "Part"
    /\ players = DEFAULT_PLAYERS
    /\ playerScores = [p \in Ids(DEFAULT_PLAYERS) |-> 0]
    /\ rounds = <<>>
    /\ rankBonus = EMPTY_BONUS
    /\ topK = 4
    /\ groupsEnabled = FALSE
    /\ groups = DefaultGroups
    /\ error = ""
    /\ showSharkySelect = FALSE
    /\ showGroupSetup = FALSE
    /\ now = 0
    /\ store = [k \in Keys |-> Absent]
    /\ constRefs = ConstantKeys
    /\ react = Rendered
    /\ \E pids \in PurePids, raws \in [1..4 -> PureRaws] :
           seatWithRaw = [i \in 1..4 |-> [pid |-> pids[i], raw |-> raws[i], idx |-> i - 1]]
    /\ bonusIn \in PureBonus
    /\ out = <<>>

\* const deltas = computeRoundDeltas(seatWithRaw, rankBonus)
Compute ==
    /\ out = <<>>
    /\ out' = computeRoundDeltas(seatWithRaw, bonusIn)
    /\ UNCHANGED <<variant, coreVars, error, showSharkySelect, showGroupSetup, now,
                   persistVars, react, seatWithRaw, bonusIn>>

NextPure == Compute

SpecPure == InitPure /\ [][NextPure]_vars

-----------------------------------------------------------------------------
(* Properties of the scoring engine (checked under SpecPure)               *)

\* The engine has run on the entries drawn
Computed == out # <<>>

DistinctPids(entries) ==
    \A i, j \in DOMAIN entries : i # j => entries[i].pid # entries[j].pid

RawsOf(entries) == [i \in DOMAIN entries |-> entries[i].raw]

\* The rank the rules give entry i: the number of entries that beat it, by a
\* greater raw or by an equal raw at an earlier seat
RankByRule(entries, i) ==
    Cardinality({j \in DOMAIN entries :
                    \/ entries[j].raw > entries[i].raw
                    \/ entries[j].raw = entries[i].raw /\ j < i})

\* C2: for 4 entries with pairwise distinct pids the rank indices are a
\* permutation of 0..3, ordered by raw descending with ties going to the
\* earlier seat, and each entry's bonus is rankBonus[rank index]; raws
\* (30000, 30000, 28000, 12000) with table [20, 10, -10, -20] give the first
\* entry delta 20 and the second delta 10.
RanksByRawThenSeat ==
    (Computed /\ DistinctPids(seatWithRaw) /\ Len(bonusIn) = 4) =>
        LET sorted == SortByRawDesc(seatWithRaw)
            rank == [i \in DOMAIN seatWithRaw |->
                        RankIndexByPid(sorted, seatWithRaw[i].pid)]
        IN  /\ {rank[i] : i \in DOMAIN rank} = 0..3
            /\ \A i \in DOMAIN rank : rank[i] = RankByRule(seatWithRaw, i)
            /\ \A i, j \in DOMAIN rank :
                   (\/ seatWithRaw[i].raw > seatWithRaw[j].raw
                    \/ seatWithRaw[i].raw = seatWithRaw[j].raw /\ i < j)
                   => rank[i] < rank[j]
            /\ \A i \in DOMAIN out : out[i].bonus = 1000 * bonusIn[rank[i] + 1]
            /\ (RawsOf(seatWithRaw) = <<30000, 30000, 28000, 12000>>
                /\ bonusIn = <<20, 10, -10, -20>>)
               => out[1].delta = 20000 /\ out[2].delta = 10000

\* Two tied entries were ranked, the pid of the earlier seat being the greater
TiedRanked ==
    /\ Computed
    /\ RawsOf(seatWithRaw) = <<30000, 30000, 28000, 12000>>
    /\ seatWithRaw[1].pid = "p4"
    /\ bonusIn = <<20, 10, -10, -20>>

\* C3: every returned entry has base exactly (raw - 30000) / 1000, fraction
\* and sign kept, and delta = base + bonus; raws (45000, 33000, 25000, 20000)
\* of four different players with table [20, 10, -10, -20] give deltas 35, 13,
\* -15, -30.
BaseExactDeltaSum ==
    Computed =>
        /\ \A i \in DOMAIN out :
               /\ out[i].base = seatWithRaw[i].raw - 30000
               /\ out[i].delta = out[i].base + out[i].bonus
        /\ (RawsOf(seatWithRaw) = <<45000, 33000, 25000, 20000>>
            /\ DistinctPids(seatWithRaw)
            /\ bonusIn = <<20, 10, -10, -20>>)
           => [i \in DOMAIN out |-> out[i].delta] = <<35000, 13000, -15000, -30000>>

\* A round with a fractional base (4.5) and a base below -30
FractionalBaseComputed ==
    /\ Computed
    /\ \E i \in DOMAIN out : out[i].raw = 34500 /\ out[i].base = 4500
    /\ \E i \in DOMAIN out : out[i].raw = -5000 /\ out[i].base = -35000

\* C4: the engine returns one record per input entry, in input (seat) order:
\* output[i].pid = input[i].pid and output[i].raw = input[i].raw.
OutputInSeatOrder ==
    Computed =>
        /\ Len(out) = Len(seatWithRaw)
        /\ \A i \in DOMAIN seatWithRaw :
               out[i].pid = seatWithRaw[i].pid /\ out[i].raw = seatWithRaw[i].raw

\* The last seat won the round: seat order is the reverse of rank order
LastSeatWon ==
    /\ Computed
    /\ RawsOf(seatWithRaw) = <<20000, 25000, 33000, 45000>>
    /\ out[4].bonus = 1000 * bonusIn[1]

\* C5: for a 4-entry table B and 4 raws with pairwise distinct pids, ties
\* included, the deltas sum to sum((r_i - 30000) / 1000) + sum(B).
DeltaSumIdentity ==
    (Computed /\ DistinctPids(seatWithRaw) /\ Len(bonusIn) = 4) =>
        SumSeq([i \in DOMAIN out |-> out[i].delta])
            = SumSeq([i \in DOMAIN seatWithRaw |-> seatWithRaw[i].raw - 30000])
              + 1000 * SumSeq(bonusIn)

\* A three-way tie was scored with a table whose entries do not sum to 0
ThreeWayTieSummed ==
    /\ Computed
    /\ DistinctPids(seatWithRaw)
    /\ RawsOf(seatWithRaw) = <<30000, 12000, 30000, 30000>>
    /\ bonusIn = <<0, 15, 0, -30>>

-----------------------------------------------------------------------------
(* Properties of the application (checked under Spec)                      *)

\* The sum of player p's deltas in round r
RoundDelta(r, p) ==
    SumSeq([i \in DOMAIN r.breakdown |->
               IF r.breakdown[i].pid = p THEN r.breakdown[i].delta ELSE 0])

\* The sum of player p's deltas over all rounds
FoldedTotal(p) == SumSeq([k \in DOMAIN rounds |-> RoundDelta(rounds[k], p)])

\* The entries a round's seats and raws make
EntriesOf(r) == [i \in DOMAIN r.seat |-> [pid |-> r.seat[i], raw |-> r.raw[i]]]

\* The four seats hold four pairwise distinct, non-empty ids
FourDistinct(seat) ==
    /\ \A i \in DOMAIN seat : seat[i] # ""
    /\ \A i, j \in DOMAIN seat : i # j => seat[i] # seat[j]

\* The text is an integer literal: digits, with an optional leading minus
IsIntegerText(s) ==
    /\ s # <<>>
    /\ \/ AllDigits(s)
       \/ s[1] = "-" /\ Len(s) > 1 /\ AllDigits(Tail(s))

\* This step commits a round
Commits == Len(rounds') = Len(rounds) + 1

\* C1: in every reachable state, for every player p of the roster,
\* playerScores[p] (0 if absent) is the sum of p's deltas over all rounds.
FoldEquivalence ==
    \A p \in Ids(players) : ScoreOr0(playerScores, p) = FoldedTotal(p)

\* C6: a successful commit appends exactly one Round whose breakdown is
\* computeRoundDeltas(seat entries, rankBonus at commit), adds each entry's
\* delta once to that player's total (absent counted as 0), and leaves every
\* other total, the roster, rankBonus, topK and the grouping unchanged.
CommitEffect ==
    [][Commits =>
          LET r == rounds'[Len(rounds')]
              pids == {r.breakdown[i].pid : i \in DOMAIN r.breakdown}
          IN  /\ rounds' = Append(rounds, r)
              /\ r.breakdown = computeRoundDeltas(EntriesOf(r), rankBonus)
              /\ DOMAIN playerScores' = DOMAIN playerScores \cup pids
              /\ \A p \in DOMAIN playerScores' :
                     playerScores'[p] = ScoreOr0(playerScores, p) + RoundDelta(r, p)
              /\ UNCHANGED <<players, rankBonus, topK, groupsEnabled, groups>>
      ]_vars

\* A second round was committed on top of totals the first had left
SecondRoundCommitted ==
    /\ Len(rounds) = 2
    /\ \E p \in DOMAIN playerScores :
           /\ RoundDelta(rounds[1], p) # 0
           /\ playerScores[p] = RoundDelta(rounds[1], p) + RoundDelta(rounds[2], p)
    /\ \E p \in DOMAIN playerScores : RoundDelta(rounds[2], p) = 0

\* C7: a submission whose seats do not hold 4 pairwise distinct, non-empty
\* ids is rejected with an error and rounds, ledger, roster and settings stay
\* unchanged; every committed round has 4 pairwise distinct pids.
BadSeatsRejected ==
    /\ [](\A seat \in SeatInputs, typed \in RawTyped :
              ~FourDistinct(seat) =>
                  validate(seat, [i \in DOMAIN typed |-> KeepDigitsMinus(typed[i])])
                      = ErrSeats)
    /\ [][(error' = ErrSeats /\ error' # error) => UNCHANGED coreVars]_vars
    /\ [](\A k \in DOMAIN rounds :
              /\ FourDistinct(rounds[k].seat)
              /\ Len(rounds[k].breakdown) = 4
              /\ \A i \in DOMAIN rounds[k].breakdown :
                     rounds[k].breakdown[i].pid = rounds[k].seat[i])

\* A submission was rejected for its seats after a round had been committed
SeatsErrorShown == error = ErrSeats /\ rounds # <<>>

\* C8: a submission in which a raw-score input is not an integer ("-", "1-2"
\* or left empty) is rejected with an error and no state changes; a round is
\* committed only when all four inputs are numeric.
NonNumericRejected ==
    [][/\ (error' = ErrScores /\ error' # error) => UNCHANGED coreVars
       /\ Commits =>
              \A seat \in SeatInputs, typed \in RawTyped, t \in ClockReadings :
                  RoundDialogOnSave(seat, typed, t) =>
                      \A i \in DOMAIN typed : IsIntegerText(KeepDigitsMinus(typed[i]))
      ]_vars

\* Whether a submission passes, from the variant and its inputs alone
Accepts(seat, raw) ==
    /\ FourDistinct(seat)
    /\ \A i \in DOMAIN raw : Number(raw[i]).finite
    /\ variant = "App" => SumSeq([i \in DOMAIN raw |-> Number(raw[i]).val]) = 100000

\* C9: App.jsx rejects, state unchanged, every submission whose raws do not
\* sum to 100000 and accepts on the sum otherwise; part_000 never rejects a
\* submission for its sum; whether given inputs pass does not depend on the
\* state they are submitted in.
SumRuleUniform ==
    /\ [](\A seat \in SeatInputs, typed \in RawTyped :
              LET raw == [i \in DOMAIN typed |-> KeepDigitsMinus(typed[i])]
                  sum == SumSeq([i \in DOMAIN raw |-> Number(raw[i]).val])
              IN  /\ validate(seat, raw) = "" <=> Accepts(seat, raw)
                  /\ validate(seat, raw) = ErrSum <=>
                         /\ variant = "App"
                         /\ FourDistinct(seat)
                         /\ \A i \in DOMAIN raw : Number(raw[i]).finite
                         /\ sum # 100000)
    /\ [][/\ (error' = ErrSum /\ error' # error) =>
                 variant = "App" /\ UNCHANGED coreVars
          /\ (Commits /\ variant = "App") =>
                 SumSeq(rounds'[Len(rounds')].raw) = 100000
         ]_vars
    /\ [](variant = "Part" => error # ErrSum)

\* App.jsx showed the sum error after it had committed a round
SumErrorShown == variant = "App" /\ error = ErrSum /\ rounds # <<>>

\* C10: saving a new rank-bonus table leaves every existing round's breakdown
\* and every ledger total unchanged; only rounds committed afterwards use the
\* new table.
BonusSaveNotRetroactive ==
    [][/\ (rankBonus' # rankBonus /\ SaveSettings) =>
              UNCHANGED <<rounds, playerScores>>
       /\ Commits =>
              LET r == rounds'[Len(rounds')]
              IN  /\ SubSeq(rounds', 1, Len(rounds)) = rounds
                  /\ \A i \in DOMAIN r.breakdown :
                         r.breakdown[i].bonus
                             = BonusAt(rankBonus', RankByRule(EntriesOf(r), i))
      ]_vars

\* Two rounds with the same seats and raws carry different bonuses: the table
\* was replaced between them
RoundsUnderTwoTables ==
    /\ Len(rounds) = 2
    /\ EntriesOf(rounds[1]) = EntriesOf(rounds[2])
    /\ rounds[1].breakdown # rounds[2].breakdown
    /\ rounds[2].breakdown = computeRoundDeltas(EntriesOf(rounds[2]), rankBonus)
    /\ \A p \in Ids(players) : ScoreOr0(playerScores, p) = FoldedTotal(p)

\* C11: the round sequence is append-only and its records immutable: in every
\* step rounds stays as it is, gains exactly one record at its end, or becomes
\* empty by resetAll or revertToDefault.
RoundsAppendOnly ==
    [][\/ rounds' = rounds
       \/ Commits /\ SubSeq(rounds', 1, Len(rounds)) = rounds
       \/ rounds' = <<>> /\ (Reset \/ Revert)
      ]_vars

\* A player who sat in a committed round has left the roster, and the round
\* is still there
PlayedAndRemoved ==
    /\ rounds # <<>>
    /\ \E k \in DOMAIN rounds : \E i \in DOMAIN rounds[k].seat :
           rounds[k].seat[i] \notin Ids(players)

\* C12: a confirmed resetAll sets the ledger to exactly p -> 0 for every
\* player p of the roster, empties the round sequence and leaves the roster
\* and the rank-bonus table unchanged; a declined confirmation changes nothing.
ResetAllEffect ==
    [][\A confirmed \in BOOLEAN :
           ResetWith(confirmed) =>
               IF confirmed
               THEN /\ DOMAIN playerScores' = Ids(players)
                    /\ \A p \in Ids(players) : playerScores'[p] = 0
                    /\ rounds' = <<>>
                    /\ UNCHANGED <<players, rankBonus>>
               ELSE UNCHANGED vars
      ]_vars

\* App.jsx after a reset: no rounds, the ledger holds exactly the roster's ids,
\* all at 0, and the table is one revertToDefault would have replaced
LedgerRebuiltFromRoster ==
    /\ variant = "App"
    /\ rounds = <<>>
    /\ now # 0
    /\ Len(players) = 4
    /\ DOMAIN playerScores = Ids(players)
    /\ \A p \in Ids(players) : playerScores[p] = 0
    /\ rankBonus # EMPTY_BONUS

\* C13: grouping lock (part_000): while a round exists no operation other
\* than resetAll or revertToDefault changes groupsEnabled or a group's
\* members; a grouping change is accepted when no round exists.
GroupingLocked ==
    [][/\ (anyRounds /\ <<groupsEnabled, groups>>' # <<groupsEnabled, groups>>)
              => (Reset \/ Revert)
       /\ \A enabled \in BOOLEAN, draft \in GroupDrafts :
              (/\ ~anyRounds
               /\ GroupSetupOnSave(enabled, draft)
               /\ ~enabled \/ SumSeq([i \in DOMAIN draft |-> Len(draft[i].members)]) = 8)
              => groupsEnabled' = enabled /\ groups' = draft
      ]_vars

\* The lock as far as the button enforces it: with a round committed the group
\* dialog cannot be opened
GroupDialogOpensUnlocked ==
    [][(showGroupSetup' /\ ~showGroupSetup) => ~anyRounds]_vars

\* Every group of gs has exactly 2 members, no id is in two groups (or twice
\* in one) and every member is in the roster
PairedOff(gs) ==
    /\ \A k \in DOMAIN gs : Len(gs[k].members) = 2
    /\ \A k, l \in DOMAIN gs : \A i \in DOMAIN gs[k].members, j \in DOMAIN gs[l].members :
           (k # l \/ i # j) => gs[k].members[i] # gs[l].members[j]
    /\ \A k \in DOMAIN gs : Range(gs[k].members) \subseteq Ids(players)

\* C14: grouping validity (part_000): every group has at most 2 distinct
\* members; while groupsEnabled is true every group has exactly 2 members, no
\* id is in two groups and every member is in the roster; a save with enabled
\* checked that violates this is rejected, groupsEnabled and groups unchanged.
\* A save that is not rejected closes the dialog with groupsEnabled true and
\* groups = draft, so the second part reads: a step out of the open dialog
\* that ends so, with groups not paired off, is the save of no draft.
GroupingValid ==
    /\ [](/\ \A k \in DOMAIN groups :
                /\ Len(groups[k].members) <= 2
                /\ Cardinality(Range(groups[k].members)) = Len(groups[k].members)
          /\ groupsEnabled => PairedOff(groups))
    /\ [][(variant = "Part" /\ showGroupSetup /\ groupsEnabled' /\ ~showGroupSetup')
              => \/ PairedOff(groups')
                 \/ \A draft \in GroupDrafts : ~GroupSetupOnSave(TRUE, draft)
         ]_vars

\* Grouping is on with the pairs made by taking two players out and putting
\* them back the other way round
RepairedGroupsEnabled ==
    /\ groupsEnabled
    /\ groups[1].members = <<"p2", "p3">>
    /\ groups[2].members = <<"p4", "p1">>

\* C15: roster ids are unique: in every reachable state no two roster records
\* share an id (every add, by handleConfirmAddPlayer or by the default-player
\* picker, adds only ids not already in the roster).
RosterIdsUnique ==
    \A i, j \in DOMAIN players : i # j => players[i].id # players[j].id

\* The text is empty once its whitespace is trimmed
BlankText(typed) == \A i \in DOMAIN typed : typed[i] = " "

\* name is typed without the spaces at its two ends
TrimmedOf(name, typed) ==
    /\ name # <<>>
    /\ name[1] # " " /\ name[Len(name)] # " "
    /\ \E a \in 0..Len(typed) :
           /\ a + Len(name) <= Len(typed)
           /\ SubSeq(typed, a + 1, a + Len(name)) = name
           /\ \A i \in DOMAIN typed :
                  (i <= a \/ i > a + Len(name)) => typed[i] = " "

\* C16: handleConfirmAddPlayer with a name that is empty after trimming adds
\* no player and leaves roster, ledger, rounds and settings unchanged; with a
\* non-empty name that is not the password it appends one player with the
\* trimmed name at the end of the roster and sets that player's ledger entry
\* to 0, no other ledger entry and no round changed.
AddPlayerEffect ==
    [][\A typed \in NameTyped, t \in ClockReadings :
           handleConfirmAddPlayer(typed, t) =>
               IF BlankText(typed)
               THEN UNCHANGED <<players, playerScores, rounds, rankBonus, topK,
                                groupsEnabled, groups>>
               ELSE typed # SharkyPassword =>
                   /\ Len(players') = Len(players) + 1
                   /\ SubSeq(players', 1, Len(players)) = players
                   /\ TrimmedOf(players'[Len(players')].name, typed)
                   /\ LET id == players'[Len(players')].id
                      IN  /\ DOMAIN playerScores' = DOMAIN playerScores \cup {id}
                          /\ playerScores'[id] = 0
                          /\ \A p \in DOMAIN playerScores \ {id} :
                                 playerScores'[p] = playerScores[p]
                   /\ UNCHANGED rounds
      ]_vars

\* A player was added under the typed name, trimmed, after a round had been
\* committed: the new entry is 0 beside totals that are not
AddedAfterRound ==
    /\ rounds # <<>>
    /\ players # <<>>
    /\ players[Len(players)].name = <<"N", "e", "o">>
    /\ playerScores[players[Len(players)].id] = 0
    /\ \E p \in DOMAIN playerScores : playerScores[p] # 0

\* s without its k-th element
Without(s, k) == SubSeq(s, 1, k - 1) \o SubSeq(s, k + 1, Len(s))

\* C17: a confirmed removePlayer removes exactly that player from the roster
\* (other players and their order kept), deletes that player's ledger entry
\* and leaves the rounds and all other ledger entries unchanged.
RemovePlayerEffect ==
    [][\A id \in Ids(players) :
           RemovePlayer(id, TRUE) =>
               /\ \E k \in DOMAIN players :
                      players[k].id = id /\ players' = Without(players, k)
               /\ DOMAIN playerScores' = DOMAIN playerScores \ {id}
               /\ \A p \in DOMAIN playerScores' : playerScores'[p] = playerScores[p]
               /\ UNCHANGED rounds
      ]_vars

\* What removal does keep to: from a roster without shared ids it removes
\* exactly the one record
RemoveFromUniqueRoster ==
    [][\A id \in Ids(players) :
           (RosterIdsUnique /\ RemovePlayer(id, TRUE)) =>
               /\ \E k \in DOMAIN players :
                      players[k].id = id /\ players' = Without(players, k)
               /\ DOMAIN playerScores' = DOMAIN playerScores \ {id}
               /\ \A p \in DOMAIN playerScores' : playerScores'[p] = playerScores[p]
               /\ UNCHANGED rounds
      ]_vars

-----------------------------------------------------------------------------
(* Display: what a render computes from the state                          *)

\* What a property read of a missing key gives
undefined == [id |-> "undefined"]

\* playersById: Object.fromEntries(players.map(p => [p.id, p])); of several
\* records with one id the last one stays
playersById ==
    [id \in Ids(players) |->
        LET ks == {k \in DOMAIN players : players[k].id = id}
        IN  players[CHOOSE k \in ks : \A l \in ks : l <= k]]

\* playersById[pid]
PlayerOf(pid) == IF pid \in DOMAIN playersById THEN playersById[pid] ELSE undefined

\* AvatarSmall: it reads player.avatar and player.name of the player it is
\* given; the read of a property of undefined throws
AvatarSmall(player) == IF player = undefined THEN "TypeError" ELSE "rendered"

\* The round history: one AvatarSmall per breakdown entry of every round
RoundHistory ==
    [k \in DOMAIN rounds |->
        [i \in DOMAIN rounds[k].breakdown |->
            AvatarSmall(PlayerOf(rounds[k].breakdown[i].pid))]]

\* C18: rendering the round history never fails on a dangling reference: in
\* every reachable state, a breakdown entry whose pid is not in the roster is
\* displayed as an unknown player; no error is raised.
HistoryRenders ==
    \A k \in DOMAIN RoundHistory : \A i \in DOMAIN RoundHistory[k] :
        RoundHistory[k][i] # "TypeError"

\* While every seated player is still in the roster, the history renders
HistoryRendersWhileSeatedStay ==
    (\A k \in DOMAIN rounds : Range(rounds[k].seat) \subseteq Ids(players))
        => HistoryRenders

\* A sort that is not stable: e goes in front of the rows with an equal score.
InsertRowUnstable(sorted, e) ==
    LET notGreater == {j \in DOMAIN sorted : sorted[j].score <= e.score}
        pos == IF notGreater = {} THEN Len(sorted) + 1
               ELSE CHOOSE j \in notGreater : \A k \in notGreater : j <= k
    IN  SubSeq(sorted, 1, pos - 1) \o <<e>> \o SubSeq(sorted, pos, Len(sorted))

\* Where .sort((a, b) => b.score - a.score), a stable sort, puts the row e when
\* e is inserted after the rows that preceded it in the input: behind every row
\* whose score is greater or equal.
InsertRow(sorted, e) ==
    LET smaller == {j \in DOMAIN sorted : sorted[j].score < e.score}
        pos == IF smaller = {} THEN Len(sorted) + 1
               ELSE CHOOSE j \in smaller : \A k \in smaller : j <= k
    IN  SubSeq(sorted, 1, pos - 1) \o <<e>> \o SubSeq(sorted, pos, Len(sorted))

\* rows.sort((a, b) => b.score - a.score)
RECURSIVE SortByScoreDesc(_)
SortByScoreDesc(s) ==
    IF s = <<>> THEN <<>>
    ELSE InsertRow(SortByScoreDesc(SubSeq(s, 1, Len(s) - 1)), s[Len(s)])

\* The memoized function of playerBoard, of its dependencies [players,
\* playerScores]: ps.map(p => ({key, name, score: scores[p.id] || 0}))
\* .sort(by score, descending)
playerBoardOf(ps, scores) ==
    SortByScoreDesc([k \in DOMAIN ps |->
        [key |-> ps[k].id, name |-> ps[k].name,
         score |-> IF ps[k].id \in DOMAIN scores THEN scores[ps[k].id] ELSE 0]])

\* playerBoard
playerBoard == playerBoardOf(players, playerScores)

\* The place the claim gives the k-th roster record on the board: behind the
\* records with a greater ledger total and the earlier records with an equal one
BoardPlace(k) ==
    LET total(l) == IF players[l].id \in DOMAIN playerScores
                    THEN playerScores[players[l].id] ELSE 0
    IN  1 + Cardinality({l \in DOMAIN players : total(l) > total(k)})
          + Cardinality({l \in DOMAIN players : l < k /\ total(l) = total(k)})

\* C19: playerBoard has exactly one row per roster record, with score =
\* playerScores[id] (0 if absent), ordered by score descending with equal
\* scores kept in roster order; the board does not depend on topK, and it is
\* the same sequence as long as the roster and the ledger are not changed.
PlayerBoardRanked ==
    /\ [](/\ Len(playerBoard) = Len(players)
          /\ \A k \in DOMAIN players :
                 /\ playerBoard[BoardPlace(k)].key = players[k].id
                 /\ playerBoard[BoardPlace(k)].name = players[k].name
                 /\ playerBoard[BoardPlace(k)].score =
                        (IF players[k].id \in DOMAIN playerScores
                         THEN playerScores[players[k].id] ELSE 0))
    /\ [][(players' = players /\ playerScores' = playerScores)
              => playerBoardOf(players', playerScores') = playerBoard]_vars

\* After a round the board shows the roster in another order, with two rows
\* of equal score on it, under a topK that is not the initial one
BoardReorderedWithTie ==
    /\ rounds # <<>>
    /\ topK # 4
    /\ \E i, j \in DOMAIN playerBoard :
           i < j /\ playerBoard[i].score = playerBoard[j].score
    /\ [k \in DOMAIN playerBoard |-> playerBoard[k].key]
           # [k \in DOMAIN players |-> players[k].id]

\* A group total that counts the group's first member only
groupScoresFirstMember ==
    IF ~groupsEnabled THEN <<>>
    ELSE [k \in DOMAIN groups |->
             [id |-> groups[k].id, members |-> groups[k].members,
              score |-> IF groups[k].members = <<>> THEN 0
                        ELSE IF groups[k].members[1] \in DOMAIN playerScores
                             THEN playerScores[groups[k].members[1]] ELSE 0]]

\* groupScores (part_000): [] while grouping is off; otherwise every group with
\* score = members.reduce((acc, pid) => acc + (playerScores[pid] || 0), 0)
groupScores ==
    IF ~groupsEnabled THEN <<>>
    ELSE [k \in DOMAIN groups |->
             [id |-> groups[k].id, members |-> groups[k].members,
              score |-> SumSeq([i \in DOMAIN groups[k].members |->
                            IF groups[k].members[i] \in DOMAIN playerScores
                            THEN playerScores[groups[k].members[i]] ELSE 0])]]

\* groupBoard (part_000): [] while grouping is off; otherwise the group scores
\* as rows, the members looked up in playersById, sorted by score descending
groupBoard ==
    IF ~groupsEnabled THEN <<>>
    ELSE SortByScoreDesc([k \in DOMAIN groupScores |->
             [key |-> groupScores[k].id,
              members |-> [i \in DOMAIN groupScores[k].members |->
                              PlayerOf(groupScores[k].members[i])],
              score |-> groupScores[k].score]])

\* Leaderboard: the rows items.slice(0, k) are rendered with highlight, the
\* rows items.slice(k) without, numbered from 1; k is 2 for the group board,
\* and for the player board topK in App.jsx and 4 in part_000
Leaderboard(items, isGroup) ==
    LET k == IF isGroup THEN 2 ELSE IF variant = "App" THEN topK ELSE 4
    IN  [i \in DOMAIN items |->
            [key |-> items[i].key, index |-> i, highlight |-> i <= k]]

\* The sum of the ledger totals of the members of the k-th group
GroupTotal(k) ==
    LET m == groups[k].members
    IN  SumSeq([i \in DOMAIN m |->
                   IF m[i] \in DOMAIN playerScores THEN playerScores[m[i]] ELSE 0])

\* The place the claim gives the k-th group on the board
GroupPlace(k) ==
    1 + Cardinality({l \in DOMAIN groups : GroupTotal(l) > GroupTotal(k)})
      + Cardinality({l \in DOMAIN groups : l < k /\ GroupTotal(l) = GroupTotal(k)})

\* C20: groupBoard (part_000) is empty while grouping is disabled; while it is
\* enabled the board has one row per group, with the sum of the ledger totals
\* of the group's members (absent counted as 0) as score, ordered by score
\* descending with ties in group order, and exactly its first 2 rows (all
\* rows if fewer) are rendered highlighted.
GroupBoardRanked ==
    variant = "Part" =>
        /\ ~groupsEnabled => groupBoard = <<>>
        /\ groupsEnabled =>
               /\ Len(groupBoard) = Len(groups)
               /\ \A k \in DOMAIN groups :
                      /\ groupBoard[GroupPlace(k)].key = groups[k].id
                      /\ groupBoard[GroupPlace(k)].score = GroupTotal(k)
               /\ \A i \in DOMAIN groupBoard :
                      Leaderboard(groupBoard, TRUE)[i].highlight <=> i <= 2

\* Grouping is on and rounds were played: the first group is no longer first
\* on the board, and two groups have equal scores
GroupBoardReordered ==
    /\ variant = "Part"
    /\ groupsEnabled
    /\ rounds # <<>>
    /\ groupBoard[1].key # groups[1].id
    /\ \E i, j \in DOMAIN groupBoard :
           i < j /\ groupBoard[i].score = groupBoard[j].score

-----------------------------------------------------------------------------
(* Settings, identifiers and the ledger's keys                             *)

\* C21: topK stays in range (App.jsx): in every reachable state topK is an
\* integer with 1 <= topK <= roster size, across settings saves, player adds,
\* player removals, default-player picks, resets and the initial load.
TopKInRange ==
    variant = "App" => (topK \in Int /\ 1 <= topK /\ topK <= Len(players))

\* The range is not kept by the steps either: a step from a state with topK in
\* range would have to end in one
TopKRangeKept ==
    [][(variant = "App" /\ 1 <= topK /\ topK <= Len(players))
           => (1 <= topK' /\ topK' <= Len(players'))]_vars

\* C22: round ids are fresh: in every reachable state the ids of the records
\* in the round sequence are pairwise distinct, for any sequence of commits,
\* commits made at the same clock reading included.
RoundIdsFresh ==
    \A i, j \in DOMAIN rounds : i # j => rounds[i].id # rounds[j].id

\* Commits made at different clock readings do get different ids
RoundIdsFreshAcrossReadings ==
    \A i, j \in DOMAIN rounds :
        (i # j /\ rounds[i].at # rounds[j].at) => rounds[i].id # rounds[j].id

\* C23: the rank-bonus table always has exactly 4 finite numeric entries:
\* from the default table, no sequence of settings saves (saves with blank or
\* non-numeric fields included, which are rejected or stored as numbers) and
\* resets gives a table of another length or with a non-finite entry, so the
\* engine's read of the table never falls back to the missing-bonus value 0.
BonusTableWellFormed ==
    /\ Len(rankBonus) = 4
    /\ \A i \in DOMAIN rankBonus : rankBonus[i] \in Int
    /\ \A i \in 0..3 : BonusAt(rankBonus, i) = 1000 * rankBonus[i + 1]

\* A save with a blank first field was accepted: the blank is stored as 0
BlankBonusStoredAsZero == rankBonus = <<0, 15, 0, -30>>

-----------------------------------------------------------------------------
(* The persisted store                                                     *)

DefaultOf(key) ==
    CASE key = "mt_players" -> (IF variant = "App" THEN <<>> ELSE SubSeq(AllDefaultPlayers, 1, 8))
      [] key = "mt_playerScores" -> [p \in Ids(DEFAULT_PLAYERS) |-> 0]
      [] key = "mt_rounds" -> <<>>
      [] key = "mt_rankBonus" -> EMPTY_BONUS
      [] key = "mt_topK" -> 4
      [] key = "mt_groupsEnabled" -> FALSE
      [] key = "mt_groups" -> DefaultGroups

\* C25: at load, each persisted key that is missing or whose stored text does
\* not parse gives that key's default, independently of the other keys (every
\* other key gives what is stored under it), and a read failure is not
\* surfaced as an error.
LoadFallsBackPerKey ==
    [][Reload =>
          /\ \A k \in KeysOf(variant) :
                 /\ store[k].kind # "json" => StateOfNext(k) = DefaultOf(k)
                 /\ store[k] = StoredItem(k, "json") => StateOfNext(k) = StoredSample(k)
          /\ error' = ""
      ]_vars

\* App.jsx was loaded with no readable roster and a stored rank-bonus table
\* and topK
LoadedPartly ==
    /\ variant = "App"
    /\ players = <<>>
    /\ rankBonus = <<0, 15, 0, -30>>
    /\ topK = 2
    /\ rounds = <<>>

\* C26: round commit is atomic to readers: no state read by a leaderboard
\* build or a history render has the new Round in rounds without that
\* round's deltas added to the ledger, or the deltas added without the Round:
\* what a render reads is a ledger that is the sum of the deltas of exactly
\* the rounds it reads.
CommitAtomicToReaders ==
    LET seen == react.rendered
    IN  \A p \in DOMAIN seen.playerScores :
            seen.playerScores[p] =
                SumSeq([k \in DOMAIN seen.rounds |-> RoundDelta(seen.rounds[k], p)])

\* onSave has queued the second round's append and not yet its ledger update,
\* after a render that read the first round
MidCommitAfterRender ==
    /\ react.pc = "setRounds"
    /\ Len(react.rendered.rounds) = 1
    /\ \E p \in DOMAIN react.rendered.playerScores : react.rendered.playerScores[p] # 0

-----------------------------------------------------------------------------
(* The ledger's keys and the defaults                                      *)

\* C27: ledger/roster key agreement: in every reachable state, from an empty
\* persisted store, the set of ids that have a ledger entry is the set of ids
\* of the roster.
LedgerKeysAreRosterIds == DOMAIN playerScores = Ids(players)

\* The steps do not keep the agreement either: a step from a state in which
\* the ledger's keys are the roster's ids would have to end in one
LedgerKeysKept ==
    [][(DOMAIN playerScores = Ids(players))
           => (DOMAIN playerScores' = Ids(players'))]_vars

\* C28: a confirmed revertToDefault resets all state to default: the roster,
\* ledger, rounds, rank-bonus table, topK and grouping configuration after it
\* are those of a first launch with an empty persisted store, in both
\* snapshots.
RevertGivesFirstLaunch ==
    [][revertToDefault(TRUE) =>
          \A k \in KeysOf(variant) : StateOfNext(k) = Fallback(k)]_vars

\* In part_000 it does, and in App.jsx for everything but the ledger
RevertGivesFirstLaunchButLedger ==
    [][revertToDefault(TRUE) =>
          \A k \in KeysOf(variant) :
              (variant = "Part" \/ k # "mt_playerScores") => StateOfNext(k) = Fallback(k)]_vars

\* Settings save in App.jsx is all-or-nothing: if a bonus field is not a
\* finite number or topK is not within 1..roster size, neither rankBonus nor
\* topK changes; otherwise both are set to the entered values.
SettingsAllOrNothing ==
    [][\A typedBonus \in BonusTyped, typedK \in TopKTyped \cup {ToText(topK)} :
           LET tempBonus == [i \in DOMAIN typedBonus |-> KeepDigitsMinus(typedBonus[i])]
               tempTopK == KeepDigits(typedK)
               bonusOk == \A i \in DOMAIN tempBonus : IsIntegerText(tempBonus[i]) \/ tempBonus[i] = <<>>
               kOk == /\ tempTopK # <<>>
                      /\ DigitsValue(tempTopK) >= 1
                      /\ DigitsValue(tempTopK) <= Len(players)
           IN  (variant = "App" /\ SettingsOnSave(tempBonus, tempTopK)) =>
                   /\ (~bonusOk \/ ~kOk) => UNCHANGED <<rankBonus, topK>>
                   /\ (bonusOk /\ kOk) =>
                          /\ rankBonus' = [i \in DOMAIN tempBonus |->
                                              IF tempBonus[i] = <<>> THEN 0
                                              ELSE IF tempBonus[i][1] = "-"
                                                   THEN 0 - DigitsValue(Tail(tempBonus[i]))
                                                   ELSE DigitsValue(tempBonus[i])]
                          /\ topK' = DigitsValue(tempTopK)
      ]_vars

\* C29: settings save in App.jsx is all-or-nothing (SettingsAllOrNothing), and
\* in particular a valid new rank-bonus table can be saved in every state in
\* which the entered topK is left at its current value: in every state of
\* App.jsx, a save of four finite bonus fields with the topK field as the
\* dialog opened it is accepted.
ValidTableCanBeSaved ==
    variant = "App" =>
        \A typedBonus \in BonusTyped :
            LET tempBonus == [i \in DOMAIN typedBonus |-> KeepDigitsMinus(typedBonus[i])]
            IN  (\A i \in DOMAIN tempBonus : Number(tempBonus[i]).finite)
                    => SettingsAccepted(tempBonus, KeepDigits(ToText(topK)))

====
